---- MODULE Spec2Model ----
(***************************************************************************)
(* A model of the immoscout pipeline: the collector (Scrapy spider), the   *)
(* trainer scripts, the upload of the model to blob storage and the         *)
(* prediction server (start-up and /predict).                               *)
(*                                                                          *)
(* Text is modelled as a sequence of characters, each character a          *)
(* one-element token ("8", "a", ...).  The token "sup2" stands for the      *)
(* single character U+00B2 (superscript two), which str.isdigit() accepts   *)
(* and int() rejects.                                                       *)
(***************************************************************************)
EXTENDS Integers, Sequences, FiniteSets, TLC

\* Python's None is the empty tuple and a present value v is <<v>>, so that
\* "x is None" is a comparison of tuples whatever the value is.
None == <<>>

Some(v) == <<v>>

Get(o) == o[1]

(***************************************************************************)
(* Text primitives of Python used by the server.                           *)
(***************************************************************************)
DecimalChars == <<"0", "1", "2", "3", "4", "5", "6", "7", "8", "9">>

IsDecimal(c) == \E i \in DOMAIN DecimalChars : DecimalChars[i] = c

DigitValue(c) == (CHOOSE i \in DOMAIN DecimalChars : DecimalChars[i] = c) - 1

\* str.isdigit(): every character is a digit (decimal digits and digit-like
\* characters such as superscripts) and there is at least one character.
IsDigitChar(c) == IsDecimal(c) \/ c = "sup2"

\* Mutant: the empty text counted as digits.
str_isdigit_vacuous(s) == \A i \in DOMAIN s : IsDigitChar(s[i])

str_isdigit(s) == Len(s) > 0 /\ \A i \in DOMAIN s : IsDigitChar(s[i])

\* int(s) of a string that passed isdigit(): decimal characters only.
int_parses(s) == Len(s) > 0 /\ \A i \in DOMAIN s : IsDecimal(s[i])

RECURSIVE int_value(_)
int_value(s) ==
    IF Len(s) = 0 THEN 0
    ELSE 10 * int_value(SubSeq(s, 1, Len(s) - 1)) + DigitValue(s[Len(s)])

\* str(n) / astype(str) of a non-negative integer: canonical decimal text.
RECURSIVE str_of_int(_)
str_of_int(n) ==
    IF n < 10 THEN <<DecimalChars[n + 1]>>
    ELSE str_of_int(n \div 10) \o <<DecimalChars[(n % 10) + 1]>>

(***************************************************************************)
(* float(s) on text over the alphabet of FormChars: an optional sign, then  *)
(* "nan", or digits with at most one decimal point and at least one digit;  *)
(* white space around the text is ignored.  A parsed number is              *)
(* sign * mant / 10^scale with no trailing zero in the fraction.            *)
(***************************************************************************)
RECURSIVE lstrip(_)
lstrip(s) == IF Len(s) > 0 /\ s[1] = " " THEN lstrip(Tail(s)) ELSE s

RECURSIVE rstrip(_)
rstrip(s) ==
    IF Len(s) > 0 /\ s[Len(s)] = " " THEN rstrip(SubSeq(s, 1, Len(s) - 1)) ELSE s

\* str.strip()
strip(s) == rstrip(lstrip(s))

RECURSIVE Normal(_, _, _)
Normal(neg, mant, scale) ==
    IF scale > 0 /\ mant % 10 = 0
    THEN Normal(neg, mant \div 10, scale - 1)
    ELSE [kind |-> "num", neg |-> neg, mant |-> mant, scale |-> scale]

NaN == [kind |-> "nan", neg |-> FALSE, mant |-> 0, scale |-> 0]

Unsigned(s) == IF Len(s) > 0 /\ s[1] \in {"-", "+"} THEN SubSeq(s, 2, Len(s)) ELSE s

Points(s) == {i \in DOMAIN s : s[i] = "."}

DigitsOnly(s) == SelectSeq(s, IsDecimal)

float_parses(s) ==
    LET u == Unsigned(strip(s)) IN
    \/ u = <<"n", "a", "n">>
    \/ /\ \A i \in DOMAIN u : IsDecimal(u[i]) \/ u[i] = "."
       /\ Cardinality(Points(u)) <= 1
       /\ Len(DigitsOnly(u)) > 0

float_value(s) ==
    LET t == strip(s)
        u == Unsigned(t)
    IN  IF u = <<"n", "a", "n">> THEN NaN
        ELSE Normal(Len(t) > 0 /\ t[1] = "-",
                    int_value(DigitsOnly(u)),
                    IF Points(u) = {} THEN 0
                    ELSE Len(u) - (CHOOSE i \in Points(u) : TRUE))

Num(n) == [kind |-> "num", neg |-> FALSE, mant |-> n, scale |-> 0]

\* Mutant: the comparison turned round (x >= 0).
GeZero(x) == x.kind = "num" /\ (~x.neg \/ x.mant = 0)

\* x <= 0 on floats: false for NaN, true for -0.0
LeZero(x) == x.kind = "num" /\ (x.neg \/ x.mant = 0)

(***************************************************************************)
(* Ordering of text (Python compares strings by code point).               *)
(***************************************************************************)
CodePointOrder ==
    <<"-", ".", "0", "1", "2", "3", "4", "5", "6", "7", "8", "9", "N", "a", "b", "c", "d", "e", "n", "o">>

Rank(c) == CHOOSE i \in DOMAIN CodePointOrder : CodePointOrder[i] = c

RECURSIVE LexLess(_, _)
LexLess(s, t) ==
    IF Len(s) = 0 THEN Len(t) > 0
    ELSE IF Len(t) = 0 THEN FALSE
    ELSE IF s[1] = t[1] THEN LexLess(Tail(s), Tail(t))
    ELSE Rank(s[1]) < Rank(t[1])

RECURSIVE SortedSeq(_)
SortedSeq(S) ==
    IF S = {} THEN <<>>
    ELSE LET m == CHOOSE x \in S : \A y \in S : x = y \/ LexLess(x, y)
         IN  <<m>> \o SortedSeq(S \ {m})

(***************************************************************************)
(* Trainer (model/model.py): cleaning of the listing records and the       *)
(* feature columns of the fitted estimators.  A listing record has rooms,  *)
(* size, price (Some(number) or None) and postal_code (Some(text) or None).*)
(***************************************************************************)
\* pd.to_numeric(errors="coerce") on a column of numbers and None: None is null
to_numeric(v) == v

\* Series.astype(str) on a column of text and None, pandas before 3.0: None
\* becomes the text "None"
astype_str(v) == IF v = None THEN Some(<<"N", "o", "n", "e">>) ELSE v

coerce(r) ==
    [rooms       |-> to_numeric(r.rooms),
     size        |-> to_numeric(r.size),
     price       |-> to_numeric(r.price),
     postal_code |-> astype_str(r.postal_code)]

notnull(r) ==
    r.price # None /\ r.rooms # None /\ r.size # None /\ r.postal_code # None

\* df.dropna(subset=["price", "rooms", "size", "postal_code"]) after the coercions
cleaned(records) ==
    SelectSeq([i \in DOMAIN records |-> coerce(records[i])], notnull)

\* Series.astype(str) from pandas 3.0 on: a missing value stays missing
astype_str_keeps_na(v) == v

coerce_keeps_na(r) ==
    [rooms       |-> to_numeric(r.rooms),
     size        |-> to_numeric(r.size),
     price       |-> to_numeric(r.price),
     postal_code |-> astype_str_keeps_na(r.postal_code)]

cleaned_keeps_na(records) ==
    SelectSeq([i \in DOMAIN records |-> coerce_keeps_na(records[i])], notnull)

PlzColumn(code) == <<"plz_">> \o code

RoomsColumn == <<"rooms">>

SizeColumn == <<"size">>

\* X = get_dummies(df, columns=["postal_code"], prefix="plz").drop(columns=["price"]):
\* the untouched columns first, then one indicator per distinct code, sorted.
X_columns(df) ==
    LET codes  == {Get(df[i].postal_code) : i \in DOMAIN df}
        sorted == SortedSeq(codes)
    IN  <<RoomsColumn, SizeColumn>> \o [i \in DOMAIN sorted |-> PlzColumn(sorted[i])]

(***************************************************************************)
(* Server (backend/app.py; app/app.py is the same handler with German      *)
(* messages).                                                               *)
(***************************************************************************)
VARIABLES
    plz_ort,            \* the postal-code directory: integer code -> place
    feature_names_in_,  \* the loaded model's ordered feature columns
    pc,                 \* where the /predict handler is
    form,               \* request.form of the request being handled
    input_df,           \* the one-row frame handed to model.predict
    predicted,          \* None, or Some(what model.predict did in this request)
    prediction,         \* the handler's local: None or the price text
    error_message,      \* the handler's local: None or the error text
    response            \* what the handler returned: None until it returns

serverVars ==
    <<plz_ort, feature_names_in_, pc, form, input_df, predicted, prediction,
      error_message, response>>

\* plz_ort[int(rows[0])] = rows[1] for every csv row after the header
load_plz_ort(rows) ==
    LET keys == {int_value(rows[i][1]) : i \in DOMAIN rows}
        last(k) == CHOOSE i \in DOMAIN rows :
                       /\ int_value(rows[i][1]) = k
                       /\ \A j \in DOMAIN rows : int_value(rows[j][1]) = k => j <= i
    IN  [k \in keys |-> rows[last(k)][2]]

Exception(type, msg) == [type |-> type, msg |-> msg]

PostalCodeMessage == "The postal code must be a number."

InvalidInputMessage == "Invalid input values."

\* The try block up to the validation: None, or Some(the exception raised),
\* in the order the statements run.
validation_error(f, directory) ==
    IF f.rooms = None
      THEN Some(Exception("KeyError", "400 Bad Request"))
    ELSE IF ~float_parses(Get(f.rooms))
      THEN Some(Exception("ValueError", "could not convert string to float"))
    ELSE IF f.size = None
      THEN Some(Exception("KeyError", "400 Bad Request"))
    ELSE IF ~float_parses(Get(f.size))
      THEN Some(Exception("ValueError", "could not convert string to float"))
    ELSE IF f.postal_code = None
      THEN Some(Exception("KeyError", "400 Bad Request"))
    ELSE IF ~str_isdigit(Get(f.postal_code))
      THEN Some(Exception("ValueError", PostalCodeMessage))
    ELSE IF ~int_parses(Get(f.postal_code))
      THEN Some(Exception("ValueError", "invalid literal for int() with base 10"))
    ELSE IF \/ LeZero(float_value(Get(f.rooms)))
            \/ LeZero(float_value(Get(f.size)))
            \/ int_value(Get(f.postal_code)) \notin DOMAIN directory
      THEN Some(Exception("ValueError", InvalidInputMessage))
    ELSE None

columns(df) == {df[i].col : i \in DOMAIN df}

\* for col in names: if col not in df.columns: df[col] = 0
fill_missing(df, names) ==
    LET absent(c) == c \notin columns(df)
        added     == SelectSeq(names, absent)
    IN  df \o [i \in DOMAIN added |-> [col |-> added[i], val |-> Num(0)]]

\* Mutant: the reindexing to the model's columns left out.
keep_columns(df, names) == df

\* df[names]
select_columns(df, names) ==
    [i \in DOMAIN names |-> CHOOSE e \in {df[j] : j \in DOMAIN df} : e.col = names[i]]

\* Mutant: the indicator column named after the form text, not after str(int(text)).
build_input_rawtext(f, names) ==
    LET dummies == << [col |-> RoomsColumn, val |-> float_value(Get(f.rooms))],
                      [col |-> SizeColumn, val |-> float_value(Get(f.size))],
                      [col |-> PlzColumn(Get(f.postal_code)), val |-> Num(1)] >>
    IN  select_columns(fill_missing(dummies, names), names)

\* The frame of a validated request, reindexed to the model's columns.
build_input(f, names) ==
    LET rooms       == float_value(Get(f.rooms))
        size        == float_value(Get(f.size))
        postal_code == int_value(Get(f.postal_code))
        dummies     == << [col |-> RoomsColumn, val |-> rooms],
                          [col |-> SizeColumn, val |-> size],
                          [col |-> PlzColumn(str_of_int(postal_code)), val |-> Num(1)] >>
    IN  select_columns(fill_missing(dummies, names), names)

\* Mutant: except ValueError.
CatchesValueError(e) == e.type = "ValueError"

\* except Exception: every exception the try block raises is an Exception
Catches(e) == e.type \in {"ValueError", "KeyError", "Exception"}

\* Mutant: the except clause leaves error_message as it is.
error_text_unset(e) == None

error_text(e) == Some([prefix |-> "Error: ", text |-> e.msg])

price_text(p) == Some([label |-> "Predicted price: CHF", value |-> p])

render_template(pred, err) == Some([prediction |-> pred, error_message |-> err])

(***************************************************************************)
(* Inputs of the server.                                                    *)
(***************************************************************************)
FormNumbers ==
    { None, Some(<<>>), Some(<<"a">>), Some(<<"0">>), Some(<<"-", "1">>),
      Some(<<"3">>), Some(<<"2", ".", "5">>), Some(<<"n", "a", "n">>) }

FormPostalCodes ==
    { None, Some(<<>>), Some(<<"a", "b", "c", "d">>), Some(<<"8", "0", "0", "a">>),
      Some(<<"sup2">>), Some(<<"8", "0", "0", "0">>), Some(<<"8", "0", "0", "1">>),
      Some(<<"0", "8", "0", "0", "1">>), Some(<<"9", "0", "0", "0">>) }

Forms == [rooms : FormNumbers, size : FormNumbers, postal_code : FormPostalCodes]

DirectoryFiles ==
    { << >>,
      << <<(<<"8", "0", "0", "0">>), "Zuerich">> >>,
      << <<(<<"8", "0", "0", "0">>), "Zuerich">>, <<(<<"8", "0", "0", "1">>), "Zuerich">> >>,
      << <<(<<"8", "0", "0", "1">>), "Zuerich">>, <<(<<"9", "0", "0", "0">>), "St. Gallen">> >> }

Listing(rooms, size, price, postal_code) ==
    [rooms |-> rooms, size |-> size, price |-> price, postal_code |-> postal_code]

\* Collections of listings a model was trained on.
TrainedCollections ==
    { << Listing(Some(3), Some(80), Some(Num(2000)), Some(<<"8", "0", "0", "0">>)) >>,
      << Listing(Some(3), Some(80), Some(Num(2000)), Some(<<"9", "0", "0", "0">>)),
         Listing(Some(2), Some(50), Some(Num(1500)), Some(<<"8", "0", "0", "0">>)),
         Listing(Some(4), None, Some(Num(1500)), Some(<<"8", "0", "0", "1">>)) >>,
      << Listing(Some(3), Some(80), Some(Num(2000)), None),
         Listing(Some(2), Some(50), Some(Num(1500)), Some(<<"8", "0", "0", "1">>)) >> }

PredictedPrices == {0, 1500}

PredictOutcomes ==
    {[raises |-> FALSE, value |-> p] : p \in PredictedPrices}
        \cup {[raises |-> TRUE, value |-> 0]}

(***************************************************************************)
(* The /predict handler.                                                    *)
(***************************************************************************)
ServerInit ==
    /\ \E rows \in DirectoryFiles : plz_ort = load_plz_ort(rows)
    /\ \E records \in TrainedCollections :
           feature_names_in_ = X_columns(cleaned(records))
    /\ pc = "idle"
    /\ form = None
    /\ input_df = <<>>
    /\ predicted = None
    /\ prediction = None
    /\ error_message = None
    /\ response = None

\* POST /predict arrives: the handler starts with both locals None.
ReceiveRequest ==
    /\ pc = "idle"
    /\ \E f \in Forms : form' = Some(f)
    /\ error_message' = None
    /\ prediction' = None
    /\ input_df' = <<>>
    /\ predicted' = None
    /\ response' = None
    /\ pc' = "validating"
    /\ UNCHANGED <<plz_ort, feature_names_in_>>

\* An exception raised in the try block: the except clause, or the transport.
Raise(e) ==
    IF Catches(e)
    THEN /\ error_message' = error_text(e)
         /\ pc' = "error"
    ELSE /\ error_message' = error_message
         /\ pc' = "propagated"

\* Parsing, validation and the construction of the frame.
Validate ==
    /\ pc = "validating"
    /\ LET e == validation_error(Get(form), plz_ort) IN
       IF e # None
       THEN /\ Raise(Get(e))
            /\ UNCHANGED input_df
       ELSE /\ input_df' = build_input(Get(form), feature_names_in_)
            /\ pc' = "predicting"
            /\ UNCHANGED error_message
    /\ UNCHANGED <<plz_ort, feature_names_in_, form, predicted, prediction, response>>

\* model.predict(input_df)[0], the formatting and the return of the page.
Predict ==
    /\ pc = "predicting"
    /\ \E out \in PredictOutcomes :
         /\ predicted' = Some(out)
         /\ IF out.raises
            THEN /\ Raise(Exception("Exception", "predict failed"))
                 /\ UNCHANGED <<prediction, response>>
            ELSE /\ prediction' = price_text(out.value)
                 /\ response' = render_template(price_text(out.value), error_message)
                 /\ pc' = "idle"
                 /\ UNCHANGED error_message
    /\ UNCHANGED <<plz_ort, feature_names_in_, form, input_df>>

\* The return after the except clause.
ReturnError ==
    /\ pc = "error"
    /\ response' = render_template(prediction, error_message)
    /\ pc' = "idle"
    /\ UNCHANGED <<plz_ort, feature_names_in_, form, input_df, predicted, prediction,
                   error_message>>


(***************************************************************************)
(* Collector (immo_spider/spiders/immoscout_spider.py).  The characters     *)
(* U+2019 and U+2013 of the price texts are the tokens "apos" and "dash".   *)
(***************************************************************************)
VARIABLES
    site,          \* the listing elements of pages 1, 2, ...; later pages are empty
    collection,    \* the MongoDB collection "listings", in insertion order
    crawl,         \* "off", "waiting" (a request is scheduled), "parsing", "drained", "closed"
    scheduled,     \* None, or Some(the url of the request Scrapy has scheduled)
    requested,     \* the page numbers of the requests of this run, in order
    response_url,  \* the url of the response parse is working on
    listings,      \* parse's local: the listing elements of the response
    done,          \* parse's position: how many listings the loop has inserted
    runs           \* number of collector runs started

collectorVars ==
    <<site, collection, crawl, scheduled, requested, response_url, listings, done, runs>>

MaxPages == 2      \* pages of a site that carry listings or gaps

MaxListings == 2   \* listing elements of a page

MaxRuns == 2       \* collector runs

\* "if text:" : neither None nor empty
Truthy(text) == text # None /\ Get(text) # <<>>

HasDigit(s) == \E i \in DOMAIN s : IsDecimal(s[i])

\* re.search(r"(\d+)", s).group(1): the first maximal run of decimal digits
first_digits(s) ==
    LET from == CHOOSE i \in DOMAIN s : IsDecimal(s[i]) /\ \A j \in 1..(i - 1) : ~IsDecimal(s[j])
        to   == CHOOSE k \in from..Len(s) :
                    /\ \A j \in from..k : IsDecimal(s[j])
                    /\ k = Len(s) \/ ~IsDecimal(s[k + 1])
    IN  SubSeq(s, from, to)

clean_rooms(rooms) ==
    IF Truthy(rooms) /\ HasDigit(Get(rooms))
    THEN Some(int_value(first_digits(Get(rooms))))
    ELSE None

clean_size(size) ==
    IF Truthy(size) /\ HasDigit(Get(size))
    THEN Some(int_value(first_digits(Get(size))))
    ELSE None

\* 2^63 - 1, the largest integer of a BSON document
Int64Max ==
    <<"9", "2", "2", "3", "3", "7", "2", "0", "3", "6",
      "8", "5", "4", "7", "7", "5", "8", "0", "7">>

RECURSIVE lstrip_zeros(_)
lstrip_zeros(digits) ==
    IF Len(digits) > 1 /\ digits[1] = "0" THEN lstrip_zeros(Tail(digits)) ELSE digits

\* int(digits) > 2^63 - 1, decided on the text
exceeds_int64(digits) ==
    LET d == lstrip_zeros(digits)
    IN  Len(d) > Len(Int64Max) \/ (Len(d) = Len(Int64Max) /\ LexLess(Int64Max, d))

too_wide(text) ==
    Truthy(text) /\ HasDigit(Get(text)) /\ exceeds_int64(first_digits(Get(text)))

\* insert_one raises OverflowError ("MongoDB can only handle up to 8-byte
\* ints") for a document with the rooms or size of this listing
insert_raises(listing) == too_wide(listing.rooms) \/ too_wide(listing.size)

StartsWith(s, pat) == Len(s) >= Len(pat) /\ SubSeq(s, 1, Len(pat)) = pat

\* s.replace(pat, "")
RECURSIVE remove(_, _)
remove(s, pat) ==
    IF Len(s) = 0 THEN <<>>
    ELSE IF StartsWith(s, pat) THEN remove(SubSeq(s, Len(pat) + 1, Len(s)), pat)
    ELSE <<s[1]>> \o remove(Tail(s), pat)

\* s.replace(a, b) for single characters
replace_char(s, a, b) == [i \in DOMAIN s |-> IF s[i] = a THEN b ELSE s[i]]

clean_price(price) ==
    IF Truthy(price)
    THEN LET stripped == strip(remove(remove(remove(Get(price), <<"C", "H", "F">>),
                                             <<"apos">>), <<"dash">>))
             text     == replace_char(stripped, ",", ".")
         IN  IF float_parses(text) THEN Some(float_value(text)) ELSE None
    ELSE None

FourDigitsAt(s, i) == i + 3 <= Len(s) /\ \A j \in i..(i + 3) : IsDecimal(s[j])

\* re.search(r"(\d{4})", location).group(1): the leftmost four consecutive digits
extract_postal_code(location) ==
    IF Truthy(location) /\ \E i \in DOMAIN Get(location) : FourDigitsAt(Get(location), i)
    THEN LET s == Get(location)
             i == CHOOSE k \in DOMAIN s :
                      FourDigitsAt(s, k) /\ \A j \in 1..(k - 1) : ~FourDigitsAt(s, j)
         IN  Some(SubSeq(s, i, i + 3))
    ELSE None

\* f"https://www.immoscout24.ch/de/immobilien/mieten/kanton-zuerich?pn={page}"
page_url(page) ==
    <<"https://www.immoscout24.ch/de/immobilien/mieten/kanton", "-",
      "z", "u", "e", "r", "i", "c", "h", "?", "pn=">> \o str_of_int(page)

LastIndexOf(s, c) == CHOOSE i \in DOMAIN s : s[i] = c /\ \A j \in (i + 1)..Len(s) : s[j] # c

FirstIndexOf(s, c) == CHOOSE i \in DOMAIN s : s[i] = c /\ \A j \in 1..(i - 1) : s[j] # c

AfterLast(s, c) ==
    IF \E i \in DOMAIN s : s[i] = c THEN SubSeq(s, LastIndexOf(s, c) + 1, Len(s)) ELSE s

BeforeFirst(s, c) ==
    IF \E i \in DOMAIN s : s[i] = c THEN SubSeq(s, 1, FirstIndexOf(s, c) - 1) ELSE s

\* int(response.url.split("pn=")[-1])
page_number(url) == int_value(AfterLast(url, "pn="))

\* response.url.split("-")[-1].split("?")[0]
canton_of(url) == BeforeFirst(AfterLast(url, "-"), "?")

\* Mutant: the page after next.
next_page_skips(url) == page_number(url) + 2

\* next_page = page_number + 1
next_page(url) == page_number(url) + 1

\* The document parse inserts for one listing element of the response.
document(listing, url) ==
    [rooms       |-> clean_rooms(listing.rooms),
     size        |-> clean_size(listing.size),
     price       |-> clean_price(listing.price),
     location    |-> IF Truthy(listing.location)
                     THEN Some(strip(Get(listing.location))) ELSE None,
     canton      |-> canton_of(url),
     postal_code |-> extract_postal_code(listing.location),
     page        |-> url]

\* Mutant: the collection kept as it is.
delete_nothing(docs) == docs

\* collection.delete_many({})
delete_many(docs) == <<>>

\* What the site serves for a url: response.css("div.ResultList_listItem_j5Td_")
listings_of(pages, url) ==
    IF page_number(url) \in DOMAIN pages THEN pages[page_number(url)] ELSE <<>>

(***************************************************************************)
(* Inputs of the collector: the listing elements a page can carry, as the   *)
(* texts the four selectors return.                                         *)
(***************************************************************************)
Element(rooms, size, price, location) ==
    [rooms |-> rooms, size |-> size, price |-> price, location |-> location]

ListingElements ==
    { Element(Some(<<"3", ".", "5", " ", "Z", "i">>),
              Some(<<"8", "0", "m", "sup2">>),
              Some(<<"C", "H", "F", " ", "2", "apos", "5", "0", "0", ".", "dash">>),
              Some(<<"W", "e", "g", " ", "1", "2", ",", " ", "8", "0", "0", "1", " ", "Z", "H">>)),
      Element(None,
              Some(<<>>),
              Some(<<"a", "u", "f", " ", "A", "n", "f", "r", "a", "g", "e">>),
              None) }

RECURSIVE SeqsUpTo(_, _)
SeqsUpTo(S, n) ==
    IF n = 0 THEN {<<>>}
    ELSE LET shorter == SeqsUpTo(S, n - 1)
         IN  shorter \cup {Append(q, x) : q \in {r \in shorter : Len(r) = n - 1}, x \in S}

\* a listing whose size text carries the number 2^63
WideElement ==
    Element(Some(<<"2", " ", "Z", "i">>),
            Some(<<"9", "2", "2", "3", "3", "7", "2", "0", "3", "6",
                   "8", "5", "4", "7", "7", "5", "8", "0", "8", "m", "sup2">>),
            Some(<<"C", "H", "F", " ", "9", "0", "0", ".", "dash">>),
            Some(<<"8", "3", "0", "2", " ", "K", "l", "o", "t", "e", "n">>))

WidePages ==
    {<<WideElement>>}
        \cup {<<e, WideElement>> : e \in {x \in ListingElements : x.rooms # None}}
        \cup {<<WideElement, e>> : e \in {x \in ListingElements : x.rooms # None}}

Pages == SeqsUpTo(ListingElements, MaxListings) \cup WidePages

Sites == SeqsUpTo(Pages, MaxPages)

(***************************************************************************)
(* The crawl.                                                               *)
(***************************************************************************)
CollectorInit ==
    /\ site \in Sites
    /\ collection = <<>>
    /\ crawl = "off"
    /\ scheduled = None
    /\ requested = <<>>
    /\ response_url = <<>>
    /\ listings = <<>>
    /\ done = 0
    /\ runs = 0

\* A collector process starts: __init__ empties the collection and Scrapy
\* schedules the request for start_urls[0].
StartRun ==
    /\ crawl \in {"off", "closed"}
    /\ runs < MaxRuns
    /\ runs' = runs + 1
    /\ collection' = delete_many(collection)
    /\ scheduled' = Some(page_url(1))
    /\ requested' = <<1>>
    /\ response_url' = <<>>
    /\ listings' = <<>>
    /\ done' = 0
    /\ crawl' = "waiting"
    /\ UNCHANGED site

\* The response of the scheduled request arrives and parse starts: the page
\* number, the listing elements, and the return when there are none.
ParseResponse ==
    /\ crawl = "waiting"
    /\ scheduled # None
    /\ response_url' = Get(scheduled)
    /\ scheduled' = None
    /\ listings' = listings_of(site, Get(scheduled))
    /\ done' = 0
    /\ crawl' = IF listings_of(site, Get(scheduled)) = <<>> THEN "drained" ELSE "parsing"
    /\ UNCHANGED <<site, collection, requested, runs>>

\* One iteration of "for listing in listings": clean the fields, insert_one.
\* An exception of insert_one ends parse: the listings left are not handled and
\* no request is yielded, so nothing is left for Scrapy to do.
InsertListing ==
    /\ crawl = "parsing"
    /\ done < Len(listings)
    /\ IF insert_raises(listings[done + 1])
       THEN crawl' = "drained" /\ UNCHANGED <<collection, done>>
       ELSE /\ collection' = Append(collection, document(listings[done + 1], response_url))
            /\ done' = done + 1
            /\ UNCHANGED crawl
    /\ UNCHANGED <<site, scheduled, requested, response_url, listings, runs>>

\* After the loop: yield scrapy.Request(next_page_url, callback=self.parse).
YieldNextPage ==
    /\ crawl = "parsing"
    /\ done = Len(listings)
    /\ scheduled' = Some(page_url(next_page(response_url)))
    /\ requested' = Append(requested, next_page(response_url))
    /\ crawl' = "waiting"
    /\ UNCHANGED <<site, collection, response_url, listings, done, runs>>

\* No request is left: Scrapy closes the spider, closed() closes the client.
CloseSpider ==
    /\ crawl = "drained"
    /\ crawl' = "closed"
    /\ UNCHANGED <<site, collection, scheduled, requested, response_url, listings, done, runs>>

(***************************************************************************)
(* Trainers: model/model.py ("db": reads the collection, keeps the lowest   *)
(* MAE, writes model/immoscout_model.pkl) and model.py ("csv": reads        *)
(* immoscout_clean.csv, keeps the highest R2, writes best_model.joblib).    *)
(* Prices are whole numbers; train_test_split is modelled by the sizes it   *)
(* produces and an arbitrary choice of the test rows.                       *)
(***************************************************************************)
VARIABLES
    trainer,       \* which script runs: "db" or "csv"
    t_pc,          \* "start", "loaded", "cleaned", "split", "fitting", "done", "aborted", "crashed"
    csv,           \* the rows of immoscout_clean.csv
    df,            \* the data frame rows after cleaning
    X_cols,        \* X.columns
    y_test,        \* the prices of the test split
    fitted,        \* the models fitted so far, each with its test errors
    best_model,    \* None or Some(name)
    best_metric,   \* best_mae ("db") or best_score ("csv"); None is the infinite start value
    artifact,      \* the artifact file: None or Some(the model dumped last)
    client_open,   \* the MongoDB client of the "db" trainer
    exit_code,     \* None while running, Some(code) at the end
    error_logged   \* logger.error was called

trainerVars ==
    <<trainer, t_pc, csv, df, X_cols, y_test, fitted, best_model, best_metric, artifact,
      client_open, exit_code, error_logged>>

MaxPrice == 3      \* predicted prices are 0..MaxPrice

ModelsOf(script) ==
    IF script = "db"
    THEN <<"Random Forest", "Gradient Boosting", "Linear Regression", "XGBoost">>
    ELSE <<"LinearRegression", "RandomForest", "GradientBoosting">>

\* pd.DataFrame(list(collection.find())) has the documents' keys as columns,
\* and no column at all when there is no document.
has_column(records) == records # <<>>

\* model.py: plz_code = first four digits of plz; dropna on the four columns
csv_cleaned(rows) ==
    SelectSeq([i \in DOMAIN rows |->
                  [rooms       |-> rows[i].rooms,
                   size        |-> rows[i].size_m2,
                   price       |-> rows[i].price_chf,
                   postal_code |-> extract_postal_code(rows[i].plz)]],
              notnull)

\* Series.str on a column read as all-NaN (float64) raises AttributeError
str_accessor_fails(rows) == rows # <<>> /\ \A i \in DOMAIN rows : rows[i].plz = None

\* train_test_split(test_size=0.2): n_test = ceil(0.2 n), n_train = n - n_test
n_test(n) == (n + 4) \div 5

split_fails(n) == n - n_test(n) <= 0

RECURSIVE SeqSum(_)
SeqSum(q) == IF Len(q) = 0 THEN 0 ELSE q[1] + SeqSum(Tail(q))

Abs(x) == IF x < 0 THEN -x ELSE x

\* mean_absolute_error(y, p) as the fraction num / den
mean_absolute_error(y, p) ==
    [num |-> SeqSum([i \in DOMAIN y |-> Abs(y[i] - p[i])]), den |-> Len(y)]

\* r2_score(y, p) = 1 - SSE / SST as a fraction; nan with fewer than two
\* samples; with a constant y: 1 for a perfect prediction, else 0.
r2_score(y, p) ==
    LET n   == Len(y)
        sse == SeqSum([i \in DOMAIN y |-> (y[i] - p[i]) * (y[i] - p[i])])
        sst == n * SeqSum([i \in DOMAIN y |-> y[i] * y[i]]) - SeqSum(y) * SeqSum(y)
    IN  IF n < 2 THEN [nan |-> TRUE, num |-> 0, den |-> 1]
        ELSE IF sst = 0 THEN [nan |-> FALSE, num |-> IF sse = 0 THEN 1 ELSE 0, den |-> 1]
        ELSE [nan |-> FALSE, num |-> sst - n * sse, den |-> sst]

FractionLess(a, b) == a.num * b.den < b.num * a.den

\* Mutant: the comparison turned round.
mae_worse(mae, best) == best = None \/ FractionLess(Get(best), mae)

\* mae < best_mae, best_mae starting at float("inf")
mae_improves(mae, best) == best = None \/ FractionLess(mae, Get(best))

\* r2 > best_score, best_score starting at -float("inf"); false for nan
r2_improves(r2, best) == ~r2.nan /\ (best = None \/ FractionLess(Get(best), r2))

(***************************************************************************)
(* Inputs of the trainers.                                                  *)
(***************************************************************************)
Doc(rooms, size, price, postal_code) ==
    [rooms |-> rooms, size |-> size, price |-> price, location |-> None,
     canton |-> <<"z", "u", "e", "r", "i", "c", "h">>, postal_code |-> postal_code,
     page |-> page_url(1)]

Zurich == Some(<<"8", "0", "0", "0">>)

Kloten == Some(<<"8", "3", "0", "2">>)

StoredCollections ==
    { << >>,
      << Doc(None, Some(80), Some(Num(2)), Zurich) >>,
      << Doc(Some(3), Some(80), None, Zurich), Doc(None, None, None, None) >>,
      << Doc(Some(3), Some(80), Some(Num(2)), Zurich) >>,
      << Doc(Some(3), Some(80), Some(Num(2)), Zurich),
         Doc(Some(2), Some(50), Some(Num(1)), None),
         Doc(Some(2), None, Some(Num(1)), Kloten) >>,
      << Doc(Some(3), Some(80), Some(Num(2)), Zurich),
         Doc(Some(2), Some(50), Some(Num(1)), Kloten),
         Doc(Some(4), Some(90), Some(Num(3)), Zurich),
         Doc(Some(1), Some(30), Some(Num(1)), Kloten),
         Doc(Some(5), Some(120), Some(Num(3)), Zurich),
         Doc(Some(2), Some(60), Some(Num(2)), Zurich) >> }

Row(rooms, size_m2, price_chf, plz) ==
    [rooms |-> rooms, size_m2 |-> size_m2, price_chf |-> price_chf, plz |-> plz]

ZurichPlace == Some(<<"8", "0", "0", "0", " ", "Z", "H">>)

CsvFiles ==
    { << >>,
      << Row(Some(3), Some(80), Some(Num(2)), None) >>,
      << Row(Some(3), Some(80), Some(Num(2)), ZurichPlace) >>,
      << Row(Some(3), Some(80), Some(Num(2)), ZurichPlace),
         Row(Some(2), Some(50), Some(Num(1)), ZurichPlace) >>,
      << Row(Some(3), Some(80), Some(Num(2)), ZurichPlace),
         Row(Some(2), Some(50), Some(Num(1)), ZurichPlace),
         Row(Some(4), Some(90), Some(Num(3)), ZurichPlace),
         Row(Some(1), Some(30), Some(Num(1)), ZurichPlace),
         Row(Some(5), Some(120), Some(Num(3)), ZurichPlace),
         Row(Some(2), Some(60), Some(Num(2)), ZurichPlace),
         Row(None, Some(60), Some(Num(2)), ZurichPlace) >> }

PricesOf(rows, picked) ==
    LET kept == SelectSeq([i \in DOMAIN rows |-> <<i, Get(rows[i].price).mant>>],
                          LAMBDA e : e[1] \in picked)
    IN  [i \in DOMAIN kept |-> kept[i][2]]

(***************************************************************************)
(* The training run.                                                        *)
(***************************************************************************)
TrainerInit ==
    /\ trainer \in {"db", "csv"}
    /\ IF trainer = "db"
       THEN collection \in StoredCollections /\ csv = <<>>
       ELSE collection = <<>> /\ csv \in CsvFiles
    /\ t_pc = "start"
    /\ df = <<>>
    /\ X_cols = <<>>
    /\ y_test = <<>>
    /\ fitted = <<>>
    /\ best_model = None
    /\ best_metric = None
    /\ artifact = None
    /\ client_open = (trainer = "db")
    /\ exit_code = None
    /\ error_logged = FALSE

\* An exception nothing catches: the traceback, exit code 1.
Crash ==
    /\ t_pc' = "crashed"
    /\ exit_code' = Some(1)

\* model/model.py 66-79, model.py 13-19: load, coerce, dropna.
LoadAndClean ==
    /\ t_pc = "start"
    /\ IF trainer = "db"
       THEN IF has_column(collection)
            THEN /\ df' \in {cleaned(collection), cleaned_keeps_na(collection)}
                 /\ t_pc' = "cleaned"
                 /\ UNCHANGED exit_code
            ELSE /\ Crash             \* df["price"]: KeyError
                 /\ UNCHANGED df
       ELSE IF str_accessor_fails(csv)
            THEN /\ Crash
                 /\ UNCHANGED df
            ELSE /\ df' = csv_cleaned(csv)
                 /\ t_pc' = "cleaned"
                 /\ UNCHANGED exit_code
    /\ UNCHANGED <<trainer, csv, X_cols, y_test, fitted, best_model, best_metric, artifact,
                   client_open, error_logged, collection>>

\* model/model.py 81-94, model.py 24-32: the features, the check for no data
\* ("db" only) and the split.
SplitData ==
    /\ t_pc = "cleaned"
    /\ X_cols' = IF trainer = "db" THEN X_columns(df)
                 ELSE << <<"rooms">>, <<"size_m2">>, <<"plz_code">> >>
    /\ IF trainer = "db" /\ Len(df) = 0
       THEN /\ error_logged' = TRUE
            /\ client_open' = FALSE
            /\ exit_code' = Some(1)
            /\ t_pc' = "aborted"
            /\ UNCHANGED y_test
       ELSE IF split_fails(Len(df))
       THEN /\ Crash                  \* train_test_split: ValueError
            /\ UNCHANGED <<y_test, error_logged, client_open>>
       ELSE /\ \E picked \in SUBSET (DOMAIN df) :
                 /\ Cardinality(picked) = n_test(Len(df))
                 /\ y_test' = PricesOf(df, picked)
            /\ t_pc' = "fitting"
            /\ UNCHANGED <<exit_code, error_logged, client_open>>
    /\ UNCHANGED <<trainer, csv, df, fitted, best_model, best_metric, artifact, collection>>

\* One iteration of "for name, model in models.items()": fit, predict, score,
\* keep the model if it is better ("csv": and dump it).
FitModel ==
    /\ t_pc = "fitting"
    /\ Len(fitted) < Len(ModelsOf(trainer))
    /\ \E y_pred \in [DOMAIN y_test -> 0..MaxPrice] :
         LET name == ModelsOf(trainer)[Len(fitted) + 1]
             mae  == mean_absolute_error(y_test, y_pred)
             r2   == r2_score(y_test, y_pred)
             keep == IF trainer = "db" THEN mae_improves(mae, best_metric)
                     ELSE r2_improves(r2, best_metric)
         IN  /\ fitted' = Append(fitted, [name |-> name, mae |-> mae, r2 |-> r2])
             /\ best_model' = IF keep THEN Some(name) ELSE best_model
             /\ best_metric' = IF ~keep THEN best_metric
                               ELSE IF trainer = "db" THEN Some(mae)
                               ELSE Some([num |-> r2.num, den |-> r2.den])
             /\ artifact' = IF keep /\ trainer = "csv" THEN Some(name) ELSE artifact
    /\ UNCHANGED <<trainer, t_pc, csv, df, X_cols, y_test, client_open, exit_code,
                   error_logged, collection>>

\* After the loop.  model/model.py 126-133: dump best_model, close the client.
\* model.py 89-92: print the best model's name (NameError if none was kept).
Finish ==
    /\ t_pc = "fitting"
    /\ Len(fitted) = Len(ModelsOf(trainer))
    /\ IF trainer = "db"
       THEN /\ artifact' = best_model
            /\ client_open' = FALSE
            /\ t_pc' = "done"
            /\ exit_code' = Some(0)
       ELSE IF best_model = None
       THEN /\ Crash
            /\ UNCHANGED <<artifact, client_open>>
       ELSE /\ t_pc' = "done"
            /\ exit_code' = Some(0)
            /\ UNCHANGED <<artifact, client_open>>
    /\ UNCHANGED <<trainer, csv, df, X_cols, y_test, fitted, best_model, best_metric,
                   error_logged, collection>>

(***************************************************************************)
(* Model storage: model/save.py uploads the file model/immoscout_model.pkl  *)
(* to the container "immoscout-models" under the next version number, and   *)
(* backend/app.py downloads the latest blob when it starts.  A blob is a    *)
(* record [name, data]; a container holds at most one blob per name.        *)
(***************************************************************************)
VARIABLES
    container,      \* None: the container does not exist; else Some(set of blobs)
    model_file,     \* model/immoscout_model.pkl next to save.py: None or Some(data)
    s_pc,           \* position of the save run
    new_version,    \* save.py: new_version
    uploaded,       \* the uploads reported by save.py, in order: [version, data]
    startup,        \* the server process: "down", "up" or "failed"
    latest_blob,    \* backend/app.py: latest_blob
    model           \* backend/app.py: model, the data loaded from the download

storageVars ==
    <<container, model_file, s_pc, new_version, uploaded, startup, latest_blob, model>>

\* number of uploads explored
MaxSaves == 10

\* contents the trainer can have left in model/immoscout_model.pkl
Artifacts == {"a", "b"}

pkl == <<".", "p", "k", "l">>

model_prefix ==
    <<"i", "m", "m", "o", "s", "c", "o", "u", "t", "-", "m", "o", "d", "e", "l">>

EndsWith(s, pat) ==
    Len(s) >= Len(pat) /\ SubSeq(s, Len(s) - Len(pat) + 1, Len(s)) = pat

\* f"immoscout-model-{new_version}.pkl"
blob_name(version) == model_prefix \o <<"-">> \o str_of_int(version) \o pkl

\* blob.name.split("-")[-1].replace(".pkl", "")
version_text(name) == remove(AfterLast(name, "-"), pkl)

\* list_blobs(): the blobs of the container in the order of their names
list_blobs(blobs) ==
    LET names == SortedSeq({b.name : b \in blobs})
    IN  [i \in DOMAIN names |-> CHOOSE b \in blobs : b.name = names[i]]

IsModelBlob(b) == StartsWith(b.name, model_prefix) /\ EndsWith(b.name, pkl)

\* the int() of the comprehension raises ValueError on a name without a number
versions_fail(listing) ==
    \E i \in DOMAIN listing :
        IsModelBlob(listing[i]) /\ ~int_parses(version_text(listing[i].name))

existing_versions(listing) ==
    {int_value(version_text(listing[i].name)) :
        i \in {j \in DOMAIN listing : IsModelBlob(listing[j])}}

\* max(values, default=default)
max_default(values, default) ==
    IF values = {} THEN default
    ELSE CHOOSE m \in values : \A v \in values : v <= m

IsPkl(b) == EndsWith(b.name, pkl)

filtered_blobs(listing) == SelectSeq(listing, IsPkl)

blob_key(b) == int_value(version_text(b.name))

keys_fail(filtered) ==
    \E i \in DOMAIN filtered : ~int_parses(version_text(filtered[i].name))

\* sorted(filtered, key=...)[0]
select_oldest(filtered) ==
    LET i == CHOOSE k \in DOMAIN filtered :
                 /\ \A j \in DOMAIN filtered : blob_key(filtered[k]) <= blob_key(filtered[j])
                 /\ \A j \in 1..(k - 1) : blob_key(filtered[k]) < blob_key(filtered[j])
    IN  filtered[i]

\* sorted(filtered, key=...)[-1]: the sort is stable, so among equal keys the
\* last listed blob is taken
select_latest(filtered) ==
    LET i == CHOOSE k \in DOMAIN filtered :
                 /\ \A j \in DOMAIN filtered : blob_key(filtered[j]) <= blob_key(filtered[k])
                 /\ \A j \in (k + 1)..Len(filtered) :
                        blob_key(filtered[j]) < blob_key(filtered[k])
    IN  filtered[i]

StorageInit ==
    /\ container = None
    /\ model_file = None
    /\ s_pc = "idle"
    /\ new_version = 0
    /\ uploaded = <<>>
    /\ startup = "down"
    /\ latest_blob = None
    /\ model = None

\* save.py lines 41-49: the file check and create_container
SaveStart ==
    /\ s_pc = "idle"
    /\ Len(uploaded) < MaxSaves
    /\ \E file \in {None} \cup {Some(a) : a \in Artifacts} :
        /\ model_file' = file
        /\ IF file = None
           THEN UNCHANGED <<container, s_pc>>
           ELSE /\ container' = IF container = None THEN Some({}) ELSE container
                /\ s_pc' = "listing"
    /\ UNCHANGED <<new_version, uploaded, startup, latest_blob, model>>

\* save.py lines 51-58
SaveList ==
    /\ s_pc = "listing"
    /\ LET listing == list_blobs(Get(container))
       IN  IF versions_fail(listing)
           THEN s_pc' = "idle" /\ UNCHANGED new_version
           ELSE /\ new_version' = max_default(existing_versions(listing), 0) + 1
                /\ s_pc' = "uploading"
    /\ UNCHANGED <<container, model_file, uploaded, startup, latest_blob, model>>

\* save.py lines 60-66: upload_blob does not overwrite an existing blob
SaveUpload ==
    /\ s_pc = "uploading"
    /\ LET name == blob_name(new_version)
       IN  IF \E b \in Get(container) : b.name = name
           THEN UNCHANGED <<container, uploaded>>
           ELSE /\ container' =
                       Some(Get(container) \cup {[name |-> name, data |-> Get(model_file)]})
                /\ uploaded' =
                       Append(uploaded, [version |-> new_version, data |-> Get(model_file)])
    /\ s_pc' = "idle"
    /\ UNCHANGED <<model_file, new_version, startup, latest_blob, model>>

\* backend/app.py lines 58-75
ServerStart ==
    /\ startup = "down"
    /\ IF container = None
       THEN startup' = "failed" /\ UNCHANGED <<latest_blob, model>>
       ELSE LET filtered == filtered_blobs(list_blobs(Get(container)))
            IN  IF filtered = <<>> \/ keys_fail(filtered)
                THEN startup' = "failed" /\ UNCHANGED <<latest_blob, model>>
                ELSE /\ latest_blob' = Some(select_latest(filtered))
                     /\ model' = Some(select_latest(filtered).data)
                     /\ startup' = "up"
    /\ UNCHANGED <<container, model_file, s_pc, new_version, uploaded>>

(***************************************************************************)
(* The programs are separate processes; each specification runs one of     *)
(* them and leaves the state of the others alone.                           *)
(***************************************************************************)
ServerOff ==
    /\ plz_ort = <<>>
    /\ feature_names_in_ = <<>>
    /\ pc = "off"
    /\ form = None
    /\ input_df = <<>>
    /\ predicted = None
    /\ prediction = None
    /\ error_message = None
    /\ response = None

CollectorOff ==
    /\ site = <<>>
    /\ crawl = "off"
    /\ scheduled = None
    /\ requested = <<>>
    /\ response_url = <<>>
    /\ listings = <<>>
    /\ done = 0
    /\ runs = 0

TrainerOff ==
    /\ trainer = "db"
    /\ t_pc = "off"
    /\ csv = <<>>
    /\ df = <<>>
    /\ X_cols = <<>>
    /\ y_test = <<>>
    /\ fitted = <<>>
    /\ best_model = None
    /\ best_metric = None
    /\ artifact = None
    /\ client_open = FALSE
    /\ exit_code = None
    /\ error_logged = FALSE

StorageOff ==
    /\ container = None
    /\ model_file = None
    /\ s_pc = "off"
    /\ new_version = 0
    /\ uploaded = <<>>
    /\ startup = "off"
    /\ latest_blob = None
    /\ model = None

vars == <<serverVars, collectorVars, trainerVars, storageVars>>

Init == ServerInit /\ CollectorOff /\ collection = <<>> /\ TrainerOff /\ StorageOff

Next ==
    \/ ReceiveRequest /\ UNCHANGED <<collectorVars, trainerVars, storageVars>>
    \/ Validate /\ UNCHANGED <<collectorVars, trainerVars, storageVars>>
    \/ Predict /\ UNCHANGED <<collectorVars, trainerVars, storageVars>>
    \/ ReturnError /\ UNCHANGED <<collectorVars, trainerVars, storageVars>>

Spec == Init /\ [][Next]_vars

CollectorNext ==
    \/ StartRun /\ UNCHANGED <<serverVars, trainerVars, storageVars>>
    \/ ParseResponse /\ UNCHANGED <<serverVars, trainerVars, storageVars>>
    \/ InsertListing /\ UNCHANGED <<serverVars, trainerVars, storageVars>>
    \/ YieldNextPage /\ UNCHANGED <<serverVars, trainerVars, storageVars>>
    \/ CloseSpider /\ UNCHANGED <<serverVars, trainerVars, storageVars>>

CollectorStart == CollectorInit /\ ServerOff /\ TrainerOff /\ StorageOff

CollectorSpec == CollectorStart /\ [][CollectorNext]_vars

TrainerNext ==
    \/ LoadAndClean /\ UNCHANGED <<serverVars, site, crawl, scheduled, requested,
                                   response_url, listings, done, runs, storageVars>>
    \/ SplitData /\ UNCHANGED <<serverVars, site, crawl, scheduled, requested,
                                response_url, listings, done, runs, storageVars>>
    \/ FitModel /\ UNCHANGED <<serverVars, site, crawl, scheduled, requested,
                               response_url, listings, done, runs, storageVars>>
    \/ Finish /\ UNCHANGED <<serverVars, site, crawl, scheduled, requested,
                             response_url, listings, done, runs, storageVars>>

TrainerStart == TrainerInit /\ ServerOff /\ CollectorOff /\ StorageOff

TrainerSpec == TrainerStart /\ [][TrainerNext]_vars

StorageNext ==
    \/ SaveStart /\ UNCHANGED <<serverVars, collectorVars, trainerVars>>
    \/ SaveList /\ UNCHANGED <<serverVars, collectorVars, trainerVars>>
    \/ SaveUpload /\ UNCHANGED <<serverVars, collectorVars, trainerVars>>
    \/ ServerStart /\ UNCHANGED <<serverVars, collectorVars, trainerVars>>

StorageStart ==
    StorageInit /\ ServerOff /\ CollectorOff /\ collection = <<>> /\ TrainerOff

StorageSpec == StorageStart /\ [][StorageNext]_vars

(***************************************************************************)
(* Properties of the server.                                                *)
(***************************************************************************)
Request == Get(form)

Answered == pc = "idle" /\ response # None

Returned == Get(response)

PredictRaised == predicted # None /\ Get(predicted).raises

Positive(x) == x.kind = "num" /\ ~x.neg /\ x.mant > 0

NonPositive(x) == x.kind = "num" /\ (x.neg \/ x.mant = 0)

IsNumber(field) == field # None /\ float_parses(Get(field))

PositiveField(field) == IsNumber(field) /\ Positive(float_value(Get(field)))

NonPositiveField(field) == IsNumber(field) /\ NonPositive(float_value(Get(field)))

DecimalText(s) == s # <<>> /\ \A i \in DOMAIN s : IsDecimal(s[i])

NotDigitText(s) == s = <<>> \/ \E i \in DOMAIN s : ~IsDigitChar(s[i])

InDirectory(field) ==
    field # None /\ DecimalText(Get(field)) /\ int_value(Get(field)) \in DOMAIN plz_ort

NotInDirectory(field) ==
    field # None /\ DecimalText(Get(field)) /\ int_value(Get(field)) \notin DOMAIN plz_ort

ValidRequest(f) ==
    PositiveField(f.rooms) /\ PositiveField(f.size) /\ InDirectory(f.postal_code)

\* C1: a request with rooms > 0, size > 0 and a postal code of the directory is
\* answered with a price text and no error message, unless model.predict raises.
C1_ValidRequestGetsPrice ==
    (form # None /\ ValidRequest(Request) /\ ~PredictRaised) =>
        /\ pc \in {"validating", "predicting", "idle"}
        /\ error_message = None
        /\ pc = "idle" =>
              /\ response # None
              /\ Returned.prediction # None
              /\ Returned.error_message = None

C1_Witness ==
    /\ Answered
    /\ ValidRequest(Request)
    /\ Returned.prediction # None
    /\ Returned.error_message = None

\* C2: a request with rooms <= 0, or size <= 0, or a postal code whose integer
\* value is no key of the directory never reaches model.predict and is answered
\* with an error message and no price text, whatever its other fields are.
C2_InvalidRequestRejected ==
    (form # None /\ (\/ NonPositiveField(Request.rooms)
                     \/ NonPositiveField(Request.size)
                     \/ NotInDirectory(Request.postal_code))) =>
        /\ pc # "predicting"
        /\ predicted = None
        /\ prediction = None
        /\ pc = "idle" =>
              /\ response # None
              /\ Returned.prediction = None
              /\ Returned.error_message # None

C2_Witness ==
    /\ Answered
    /\ NonPositiveField(Request.rooms)
    /\ PositiveField(Request.size)
    /\ InDirectory(Request.postal_code)
    /\ Returned.error_message # None
    /\ Returned.prediction = None

PostalCodeError == Some([prefix |-> "Error: ", text |-> PostalCodeMessage])

\* C3 as stated: whatever the rooms and size fields are, a request whose postal
\* code is not a digit string is answered with the postal-code error message.
C3_AnyRoomsAndSize ==
    (Answered /\ Request.postal_code # None /\ NotDigitText(Get(Request.postal_code))) =>
        /\ Returned.error_message = PostalCodeError
        /\ Returned.prediction = None

\* C3 (amended): when the rooms and size fields are present and parse as numbers,
\* a request whose postal code is not a digit string is answered with the
\* postal-code error message and no price, and the handler does not crash.
C3_NonDigitPostalCode ==
    (/\ form # None
     /\ IsNumber(Request.rooms)
     /\ IsNumber(Request.size)
     /\ Request.postal_code # None
     /\ NotDigitText(Get(Request.postal_code))) =>
        /\ pc \in {"validating", "error", "idle"}
        /\ pc = "error" => error_message = PostalCodeError
        /\ pc = "idle" =>
              /\ response # None
              /\ Returned.error_message = PostalCodeError
              /\ Returned.prediction = None

C3_Witness ==
    /\ Answered
    /\ NonPositiveField(Request.rooms)
    /\ IsNumber(Request.size)
    /\ Request.postal_code = Some(<<"a", "b", "c", "d">>)
    /\ Returned.error_message = PostalCodeError

IsErrorText(m) == m # None /\ Get(m).prefix = "Error: "

\* C4: no exception of the try block reaches the transport layer: the handler is
\* never left by an exception, every failed request (a field missing or
\* unparsable, a failed validation, model.predict raising) is answered with the
\* page carrying "Error: " and the exception's text and no price, and a request
\* being handled can always take its next step.
C4_NoExceptionPropagates ==
    /\ pc \in {"idle", "validating", "predicting", "error"}
    /\ pc = "error" => IsErrorText(error_message) /\ prediction = None
    /\ pc # "idle" => ENABLED Next
    /\ (Answered /\ (validation_error(Request, plz_ort) # None \/ PredictRaised)) =>
          /\ IsErrorText(Returned.error_message)
          /\ Returned.prediction = None

C4_Witness ==
    /\ Answered
    /\ Request.rooms = None
    /\ IsErrorText(Returned.error_message)
    /\ Returned.prediction = None

IsPlz(c) == c[1] = "plz_"

RequestedColumn == PlzColumn(str_of_int(int_value(Get(Request.postal_code))))

Trained(c) == \E j \in DOMAIN feature_names_in_ : feature_names_in_[j] = c

PlzIndices == {i \in DOMAIN input_df : IsPlz(input_df[i].col)}

PlzOnes == {i \in PlzIndices : input_df[i].val = Num(1)}

\* C5: among the plz_ columns of the frame built for a validated request, the
\* column of the requested postal code is 1 and every other is 0 when that code
\* has a training column, and all are 0 when it has none.
C5_OneHotRow ==
    input_df # <<>> =>
        /\ \A i \in PlzIndices : input_df[i].val \in {Num(0), Num(1)}
        /\ IF Trained(RequestedColumn)
           THEN /\ Cardinality(PlzOnes) = 1
                /\ \A i \in PlzOnes : input_df[i].col = RequestedColumn
           ELSE PlzOnes = {}

C5_Witness ==
    /\ pc = "predicting"
    /\ Trained(RequestedColumn)
    /\ Cardinality(PlzIndices) >= 2
    /\ Cardinality(PlzOnes) = 1

\* C6: the frame handed to model.predict has exactly the trainer's feature
\* columns (rooms, size, then the plz_ indicators) in the trainer's order, with
\* the request's rooms and size in the rooms and size columns; a postal code
\* without a training column adds no column.
C6_ColumnsMatchTraining ==
    input_df # <<>> =>
        /\ Len(input_df) = Len(feature_names_in_)
        /\ \A i \in DOMAIN input_df : input_df[i].col = feature_names_in_[i]
        /\ input_df[1].col = RoomsColumn
        /\ input_df[1].val = float_value(Get(Request.rooms))
        /\ input_df[2].col = SizeColumn
        /\ input_df[2].val = float_value(Get(Request.size))
        /\ \A i \in DOMAIN input_df : i > 2 => IsPlz(input_df[i].col)

C6_Witness ==
    /\ pc = "predicting"
    /\ ~Trained(RequestedColumn)
    /\ Len(input_df) = Len(feature_names_in_)
    /\ Len(input_df) >= 4

PredictInvoked == predicted # None

\* the steps idle -> validating -> (predicting | error) -> idle; a predict call
\* that raises goes on to error
HandlerSteps ==
    {<<"idle", "validating">>, <<"validating", "predicting">>, <<"validating", "error">>,
     <<"predicting", "idle">>, <<"predicting", "error">>, <<"error", "idle">>}

\* C14 as stated: a request goes idle -> validating -> (predicting | error) ->
\* idle; model.predict is invoked, and the predicting step reached, only for a
\* request with rooms > 0, size > 0 and a postal code of digits that is in the
\* directory; and a request that is not back in idle with its response can
\* take its next step.
C14_PredictOnlyAfterValidation ==
    /\ [][pc' # pc => <<pc, pc'>> \in HandlerSteps]_vars
    /\ [](PredictInvoked \/ pc = "predicting" => ValidRequest(Request))
    /\ [](pc = "idle" /\ form # None => response # None)
    /\ [](pc # "idle" => ENABLED Next)

OneOf(pred, err) == (pred = None) # (err = None)

\* C15: every response carries either the price text or the error message,
\* never both and never neither, the same holds for the handler's locals when
\* it returns, and no step of a request changes the postal-code directory or
\* the loaded model's columns.
C15_ExactlyOneOfPriceAndError ==
    /\ [](response # None => OneOf(Returned.prediction, Returned.error_message))
    /\ [](Answered => OneOf(prediction, error_message))
    /\ [][plz_ort' = plz_ort /\ feature_names_in_' = feature_names_in_]_vars

\* A request whose predict call raised is answered with the error message only.
C15_Witness ==
    /\ Answered
    /\ PredictRaised
    /\ Returned.prediction = None
    /\ Returned.error_message # None

(***************************************************************************)
(* Properties of the collector.                                             *)
(***************************************************************************)
PageListings(k) == IF k \in DOMAIN site THEN site[k] ELSE <<>>

InsertedFrom(k) ==
    Cardinality({i \in DOMAIN collection : collection[i].page = page_url(k)})

ScheduledPages == IF scheduled = None THEN {} ELSE {page_number(Get(scheduled))}

FetchedPages == {requested[i] : i \in DOMAIN requested} \ ScheduledPages

AllInserted ==
    \A i \in DOMAIN requested :
        \A j \in DOMAIN PageListings(requested[i]) :
            ~insert_raises(PageListings(requested[i])[j])

RECURSIVE Accepted(_)
Accepted(page) ==
    IF page = <<>> \/ insert_raises(Head(page)) THEN <<>>
    ELSE <<Head(page)>> \o Accepted(Tail(page))

RECURSIVE CrawledDocuments(_)
CrawledDocuments(k) ==
    IF PageListings(k) = <<>> THEN <<>>
    ELSE [j \in DOMAIN Accepted(site[k]) |-> document(site[k][j], page_url(k))]
             \o IF Accepted(site[k]) = site[k] THEN CrawledDocuments(k + 1) ELSE <<>>

Copies(docs, d) == Cardinality({i \in DOMAIN docs : docs[i] = d})

\* C8 as stated: after two complete runs over the same pages the collection
\* holds every listing record twice.
C8_SecondRunDuplicates ==
    (runs = 2 /\ crawl = "closed") =>
        \A i \in DOMAIN CrawledDocuments(1) :
            Copies(collection, CrawledDocuments(1)[i])
                = 2 * Copies(CrawledDocuments(1), CrawledDocuments(1)[i])

\* C8 (amended): every run first empties the collection, so after any number of
\* complete runs over the same pages the collection holds the records of one
\* run: one document per listing element crawled, in crawl order, equal listing
\* elements stored once each.
C8_RunReplacesCollection ==
    crawl = "closed" => collection = CrawledDocuments(1)

C8_Witness ==
    /\ runs = 2
    /\ crawl = "closed"
    /\ collection = CrawledDocuments(1)
    /\ \E i, j \in DOMAIN collection : i < j /\ collection[i] = collection[j]

\* the pages whose parse has ended
ParsedPages ==
    {requested[i] : i \in 1..(Len(requested) - 1)}
        \cup (IF crawl \in {"drained", "closed"} /\ requested # <<>>
              THEN {requested[Len(requested)]} ELSE {})

RecordsOf(k) == SelectSeq(collection, LAMBDA d : d.page = page_url(k))

Digits == {"0", "1", "2", "3", "4", "5", "6", "7", "8", "9"}

NoNumber(text) == text = None \/ \A i \in DOMAIN Get(text) : Get(text)[i] \notin Digits

NoPrice(text) ==
    \/ text = None
    \/ Get(text) = <<>>
    \/ \E i \in DOMAIN Get(text) : Get(text)[i] \notin Digits \cup {"C", "H", "F", " ", ".", ",", "apos", "dash"}

NoPostalCode(text) ==
    \/ text = None
    \/ \A i \in DOMAIN Get(text) :
           \E j \in i..(i + 3) : j > Len(Get(text)) \/ Get(text)[j] \notin Digits

\* C12 as stated: once parse has ended on a page with listing elements, the
\* collection holds exactly one record per listing element of the page, in
\* order; a rooms, size, price or postal-code text that is missing or does not
\* parse is null in its record, and the other fields are the ones cleaned
\* from the element.
C12_OneRecordPerListing ==
    \A k \in ParsedPages :
        PageListings(k) # <<>> =>
            /\ Len(RecordsOf(k)) = Len(PageListings(k))
            /\ \A j \in DOMAIN PageListings(k) :
                  LET e == PageListings(k)[j]
                      d == RecordsOf(k)[j]
                  IN  /\ NoNumber(e.rooms) => d.rooms = None
                      /\ NoNumber(e.size) => d.size = None
                      /\ NoPrice(e.price) => d.price = None
                      /\ NoPostalCode(e.location) => d.postal_code = None
                      /\ d = document(e, page_url(k))

(***************************************************************************)
(* Properties of the trainers.                                              *)
(***************************************************************************)
Scores(name) == CHOOSE e \in {fitted[i] : i \in DOMAIN fitted} : e.name = name

LowestMae(name) ==
    \A i \in DOMAIN fitted : ~FractionLess(fitted[i].mae, Scores(name).mae)

HighestR2(name) ==
    \A i \in DOMAIN fitted : ~FractionLess(Scores(name).r2, fitted[i].r2)

\* C9 as stated: whichever trainer ran, the artifact it leaves is the fitted
\* model with the lowest mean absolute error on the test split.
C9_ArtifactHasLowestMae ==
    (t_pc = "done" /\ artifact # None) => LowestMae(Get(artifact))

\* C9 (amended): the artifact of model/model.py is the fitted model with the
\* lowest test MAE; the artifact of model.py is the fitted model with the
\* highest test R2.
C9_ArtifactIsBestByMetric ==
    t_pc = "done" =>
        /\ artifact # None
        /\ Len(fitted) = Len(ModelsOf(trainer))
        /\ trainer = "db" => LowestMae(Get(artifact))
        /\ trainer = "csv" => HighestR2(Get(artifact))

C9_Witness ==
    /\ t_pc = "done"
    /\ trainer = "db"
    /\ artifact = Some("Linear Regression")
    /\ LowestMae("Linear Regression")
    /\ ~LowestMae("Random Forest")
    /\ ~LowestMae("XGBoost")

Complete(d) ==
    d.rooms # None /\ d.size # None /\ d.price # None /\ d.postal_code # None

Features(d) ==
    [rooms |-> d.rooms, size |-> d.size, price |-> d.price, postal_code |-> d.postal_code]

\* C13 as stated: every record of the cleaned frame of model/model.py is a
\* stored record with rooms, size, price and postal code all non-null, and
\* every indicator column of the features is the column of a postal code that
\* some stored record carries.
C13_NoNullReachesTraining ==
    trainer = "db" =>
        /\ \A i \in DOMAIN df :
              \E j \in DOMAIN collection :
                  Complete(collection[j]) /\ df[i] = Features(collection[j])
        /\ \A k \in DOMAIN X_cols :
              \/ X_cols[k] \in {RoomsColumn, SizeColumn}
              \/ \E j \in DOMAIN collection :
                     /\ collection[j].postal_code # None
                     /\ X_cols[k] = PlzColumn(Get(collection[j].postal_code))

\* C10: when no record survives the cleaning (an empty collection included),
\* the run of model/model.py ends through its own exit path: the error is
\* logged, the client closed, the exit code 1, and no artifact is written.
C10_NoDataAbortsCleanly ==
    (trainer = "db" /\ exit_code # None /\ cleaned(collection) = <<>>) =>
        /\ t_pc = "aborted"
        /\ error_logged
        /\ ~client_open
        /\ exit_code = Some(1)
        /\ artifact = None

(***************************************************************************)
(* Properties of the model storage.                                         *)
(***************************************************************************)
LastUpload == uploaded[Len(uploaded)]

StoredAs(upload) == [name |-> blob_name(upload.version), data |-> upload.data]

\* the suffixes of the blobs named immoscout-model-<n>.pkl
Suffixes(blobs) == {n \in 1..(MaxSaves + 1) : \E b \in blobs : b.name = blob_name(n)}

Highest(S) == IF S = {} THEN 0 ELSE CHOOSE m \in S : \A n \in S : n <= m

PklBlobs(blobs) ==
    {b \in blobs : Len(b.name) > 3 /\ SubSeq(b.name, Len(b.name) - 3, Len(b.name)) = pkl}

UploadStep ==
    uploaded' # uploaded =>
        LET upload == uploaded'[Len(uploaded')]
        IN  /\ upload.version = Highest(Suffixes(Get(container))) + 1
            /\ container' = Some(Get(container) \cup {StoredAs(upload)})
            /\ \A i \in DOMAIN uploaded : uploaded[i].version < upload.version

StartStep ==
    (startup = "down" /\ startup' = "up") =>
        /\ uploaded # <<>>
        /\ latest_blob' = Some(StoredAs(LastUpload))
        /\ model' = Some(LastUpload.data)
        /\ PklBlobs(Get(container)) # {}
        /\ \A b \in PklBlobs(Get(container)) :
               \E n \in Suffixes({b}) : n <= LastUpload.version

\* C11: every upload of a save run goes under the suffix max(existing
\* suffixes, default 0) + 1, which is above the suffix of every earlier
\* upload, and a server that starts loads the .pkl blob with the maximum
\* suffix, which is the blob of the most recent upload with its data.
C11_StorageVersioning == [][UploadStep /\ StartStep]_vars

\* The server is up after ten uploads with the two-digit suffix loaded, and the
\* first upload carried other data than the last.
C11_Witness ==
    /\ startup = "up"
    /\ Len(uploaded) > 9
    /\ latest_blob = Some(StoredAs(LastUpload))
    /\ Len(Get(latest_blob).name) > Len(blob_name(1))
    /\ uploaded[1].data # LastUpload.data

====
